---- MODULE Spec2Model ----
(***************************************************************************)
(* Retirement withdrawal simulation engine and historical success sweep    *)
(* of HistoricalFinanceSimulator: runRetirementMonthly and                 *)
(* runRetirementSuccessByStartYear, in the server copy (retirement core    *)
(* of the calc server) and in the client copy (browser script).            *)
(*                                                                         *)
(* Numbers.  The source computes in JavaScript Numbers.  The model keeps   *)
(* every finite Number as an exact fraction [n, d] in lowest terms with    *)
(* d > 0, so no rounding is modelled.  The non-finite Numbers are          *)
(* d = 0 : NaN (n = 0), +Infinity (n = 1), -Infinity (n = -1).  JavaScript *)
(* null is the value Null.  Arithmetic propagates NaN; the infinities only *)
(* occur as the initial extrema of the sweep and only meet Math.max,       *)
(* Math.min and Number.isFinite.                                           *)
(***************************************************************************)
EXTENDS Integers, Sequences, FiniteSets, TLC

\* ------------------------------------------------------------ Numbers ----

RECURSIVE GCD(_, _)
GCD(a, b) == IF b = 0 THEN a ELSE GCD(b, a % b)

Abs(x) == IF x < 0 THEN -x ELSE x

Rat(n, d) ==
  LET s == IF d < 0 THEN -1 ELSE 1
      g == GCD(Abs(n), Abs(d))
  IN  [n |-> (s * n) \div g, d |-> (s * d) \div g]

Num(k) == [n |-> k, d |-> 1]

NaN    == [n |-> 0,  d |-> 0]
PosInf == [n |-> 1,  d |-> 0]
NegInf == [n |-> -1, d |-> 0]
Null   == [n |-> 0,  d |-> -1]

IsNull(x)   == x.d = -1
IsFinite(x) == x.d > 0
IsNaN(x)    == x.d = 0 /\ x.n = 0

Add(a, b) ==
  IF ~IsFinite(a) \/ ~IsFinite(b) THEN NaN
  ELSE LET g == GCD(a.d, b.d)
       IN  Rat(a.n * (b.d \div g) + b.n * (a.d \div g), (a.d \div g) * b.d)

Neg(a) == IF IsFinite(a) THEN [n |-> -a.n, d |-> a.d] ELSE NaN

Sub(a, b) == Add(a, Neg(b))

Mul(a, b) ==
  IF ~IsFinite(a) \/ ~IsFinite(b) THEN NaN
  ELSE LET g1 == GCD(Abs(a.n), b.d)
           g2 == GCD(Abs(b.n), a.d)
       IN  Rat((a.n \div g1) * (b.n \div g2), (a.d \div g2) * (b.d \div g1))

\* a / b for a divisor the source has already found finite and non-zero
Div(a, b) ==
  IF ~IsFinite(a) \/ ~IsFinite(b) \/ b.n = 0 THEN NaN
  ELSE Mul(a, Rat(b.d, b.n))

\* a < b ; every comparison with NaN is false
Lt(a, b) ==
  IF IsNaN(a) \/ IsNaN(b) THEN FALSE
  ELSE IF ~IsFinite(a) \/ ~IsFinite(b)
       THEN (a = NegInf /\ b # NegInf) \/ (b = PosInf /\ a # PosInf)
       ELSE LET g == GCD(a.d, b.d)
            IN  a.n * (b.d \div g) < b.n * (a.d \div g)

Gt(a, b) == Lt(b, a)
Le(a, b) == ~IsNaN(a) /\ ~IsNaN(b) /\ ~Lt(b, a)
Ge(a, b) == Le(b, a)

MathMax(a, b) == IF IsNaN(a) \/ IsNaN(b) THEN NaN ELSE IF Lt(a, b) THEN b ELSE a
MathMin(a, b) == IF IsNaN(a) \/ IsNaN(b) THEN NaN ELSE IF Lt(b, a) THEN b ELSE a

Zero == Num(0)
One  == Num(1)

\* ------------------------------------------------------------ Helpers ----

\* month strings "YYYY-MM" are kept as their two numeric fields
Month(y, m) == [y |-> y, m |-> m]

\* the source's null result is -1 here (years are non-negative)
monthToIndex(month) ==
  IF month.m < 1 \/ month.m > 12 THEN -1 ELSE month.y * 12 + (month.m - 1)

clamp(n, lo, hi) == MathMax(lo, MathMin(hi, n))

\* insertion of x into an ascending sequence (the comparator sort of median)
RECURSIVE SortAsc(_)
SortAsc(s) ==
  IF Len(s) <= 1 THEN s
  ELSE LET rest == SortAsc(Tail(s))
           x    == Head(s)
           k    == Cardinality({j \in 1..Len(rest) : Lt(rest[j], x)})
       IN  SubSeq(rest, 1, k) \o <<x>> \o SubSeq(rest, k + 1, Len(rest))

median(values) ==
  IF Len(values) = 0 THEN Null
  ELSE LET sorted == SortAsc(values)
           mid    == Len(sorted) \div 2          \* 0-based index
       IN  IF Len(sorted) % 2 = 1 THEN sorted[mid + 1]
           ELSE Div(Add(sorted[mid], sorted[mid + 1]), Num(2))

\* mutant: the previous close is not tested for being positive
buildReturnsUnguarded(monthly) ==
  [i \in 1..Len(monthly) |->
     IF i = 1 THEN Zero
     ELSE LET prev == monthly[i - 1].close
              cur  == monthly[i].close
          IN  IF IsFinite(prev) /\ IsFinite(cur)
              THEN Sub(Div(cur, prev), One)
              ELSE Zero]

\* returns[i] for the 1-based position i of the price series
buildReturns(monthly) ==
  [i \in 1..Len(monthly) |->
     IF i = 1 THEN Zero
     ELSE LET prev == monthly[i - 1].close
              cur  == monthly[i].close
          IN  IF IsFinite(prev) /\ Gt(prev, Zero) /\ IsFinite(cur)
              THEN Sub(Div(cur, prev), One)
              ELSE Zero]

\* 0-based index of the month in the series, -1 when absent
findMonthIndex(monthly, monthStr) ==
  LET exact == {i \in 1..Len(monthly) : monthly[i].month = monthStr}
      want  == monthToIndex(monthStr)
      same  == {i \in 1..Len(monthly) : monthToIndex(monthly[i].month) = want}
      Least(S) == CHOOSE i \in S : \A j \in S : i <= j
  IN  IF exact # {} THEN Least(exact) - 1
      ELSE IF want = -1 THEN -1
      ELSE IF same # {} THEN Least(same) - 1
      ELSE -1

\* -------------------------------------------- Inflation compounding ----

RECURSIVE Pow(_, _)
Pow(x, k) == IF k = 0 THEN One ELSE Mul(x, Pow(x, k - 1))

\* Math.pow(x, 1/12) on the perfect twelfth powers the model feeds it
Roots == {One, Num(2)}
\* Math.pow(1.03, 1/12) = 1.002466..., kept to the nearest 1/400
Root12Of103 == Rat(401, 400)
Root12(x) ==
  IF x = Rat(103, 100) THEN Root12Of103
  ELSE CHOOSE r \in Roots : Pow(r, 12) = x

\* mutant: the operands of the subtraction swapped
monthlyInflationRateSwapped(annualPct) ==
  LET a == Div(IF IsFinite(annualPct) THEN annualPct ELSE Num(3), Num(100))
  IN  IF Lt(a, Rat(-99, 100)) THEN Rat(-99, 100)
      ELSE Sub(One, Root12(Add(One, a)))

monthlyInflationRateFromAnnualPct(annualPct) ==
  LET a == Div(IF IsFinite(annualPct) THEN annualPct ELSE Num(3), Num(100))
  IN  IF Lt(a, Rat(-99, 100)) THEN Rat(-99, 100)
      ELSE Sub(Root12(Add(One, a)), One)

\* ---------------------------------------- Withdrawal policy evaluator ----

Step == Rat(1, 400)          \* 0.0025

\* mutant: a year-to-date return of exactly 8% already raises the rate
AdjustRateInclusive(currentRate, ytdReturnAfterMarket, minRate, maxRate) ==
  IF IsFinite(ytdReturnAfterMarket)
  THEN IF Ge(ytdReturnAfterMarket, Rat(8, 100))
       THEN clamp(Add(currentRate, Step), minRate, maxRate)
       ELSE IF Lt(ytdReturnAfterMarket, Rat(3, 100))
            THEN clamp(Sub(currentRate, Step), minRate, maxRate)
            ELSE currentRate
  ELSE currentRate

\* the guardrails adjustment of the rate by the year-to-date return
AdjustRate(currentRate, ytdReturnAfterMarket, minRate, maxRate) ==
  IF IsFinite(ytdReturnAfterMarket)
  THEN IF Gt(ytdReturnAfterMarket, Rat(8, 100))
       THEN clamp(Add(currentRate, Step), minRate, maxRate)
       ELSE IF Lt(ytdReturnAfterMarket, Rat(3, 100))
            THEN clamp(Sub(currentRate, Step), minRate, maxRate)
            ELSE currentRate
  ELSE currentRate

\* the client copy: two consecutive ifs on the same year-to-date return
AdjustRateClient(currentRate, ytdReturnAfterMarket, minRate, maxRate) ==
  IF IsFinite(ytdReturnAfterMarket)
  THEN LET r1 == IF Gt(ytdReturnAfterMarket, Rat(8, 100))
                 THEN clamp(Add(currentRate, Step), minRate, maxRate)
                 ELSE currentRate
       IN  IF Lt(ytdReturnAfterMarket, Rat(3, 100))
           THEN clamp(Sub(r1, Step), minRate, maxRate)
           ELSE r1
  ELSE currentRate

\* mutant: the guardrails rate is adjusted before the test for a withdrawal
\* month, so that it moves in every month
computeWithdrawalAlwaysAdjusts(copy, p) ==
  LET adjusted == IF p.mode = "guardrails"
                  THEN AdjustRate(p.currentRate, p.ytdReturnAfterMarket, p.minRate, p.maxRate)
                  ELSE p.currentRate
  IN  IF ~p.isWithdrawalMonth
      THEN [withdrawal |-> Zero, guardrailsRate |-> adjusted,
            currentRate |-> adjusted, threw |-> FALSE]
      ELSE IF p.mode = "percentOfInitial"
      THEN LET annual == Mul(p.initialBalance, p.ratePerYear)
           IN  [withdrawal |-> IF p.frequency = "monthly" THEN Div(annual, Num(12)) ELSE annual,
                guardrailsRate |-> Null, currentRate |-> p.currentRate, threw |-> FALSE]
      ELSE IF p.mode = "percentOfCurrent"
      THEN [withdrawal |-> Mul(p.inflationBasePeriodWithdraw, p.inflationFactor),
            guardrailsRate |-> Null, currentRate |-> p.currentRate, threw |-> FALSE]
      ELSE IF p.mode = "guardrails"
      THEN LET annual == Mul(p.balance, adjusted)
               w      == IF p.frequency = "monthly" THEN Div(annual, Num(12)) ELSE annual
           IN  [withdrawal |-> IF Gt(p.minDollarFloor, Zero) THEN MathMax(w, p.minDollarFloor) ELSE w,
                guardrailsRate |-> adjusted, currentRate |-> adjusted, threw |-> FALSE]
      ELSE [withdrawal |-> Zero, guardrailsRate |-> Null,
            currentRate |-> p.currentRate, threw |-> TRUE]

\* mutant: percentOfInitial pays the annual amount in every monthly period
computeWithdrawalNoMonthlyShare(copy, p) ==
  IF ~p.isWithdrawalMonth
  THEN [withdrawal |-> Zero, guardrailsRate |-> p.currentRate,
        currentRate |-> p.currentRate, threw |-> FALSE]
  ELSE IF p.mode = "percentOfInitial"
  THEN [withdrawal |-> Mul(p.initialBalance, p.ratePerYear),
        guardrailsRate |-> Null, currentRate |-> p.currentRate, threw |-> FALSE]
  ELSE IF p.mode = "percentOfCurrent"
  THEN [withdrawal |-> Mul(p.inflationBasePeriodWithdraw, p.inflationFactor),
        guardrailsRate |-> Null, currentRate |-> p.currentRate, threw |-> FALSE]
  ELSE IF p.mode = "guardrails"
  THEN LET rate   == IF copy = "server"
                     THEN AdjustRate(p.currentRate, p.ytdReturnAfterMarket, p.minRate, p.maxRate)
                     ELSE AdjustRateClient(p.currentRate, p.ytdReturnAfterMarket, p.minRate, p.maxRate)
           annual == Mul(p.balance, rate)
           w      == IF p.frequency = "monthly" THEN Div(annual, Num(12)) ELSE annual
       IN  [withdrawal |-> IF Gt(p.minDollarFloor, Zero) THEN MathMax(w, p.minDollarFloor) ELSE w,
            guardrailsRate |-> rate, currentRate |-> rate, threw |-> FALSE]
  ELSE [withdrawal |-> Zero, guardrailsRate |-> Null,
        currentRate |-> p.currentRate, threw |-> TRUE]

\* p: the argument object; the result carries the withdrawal, the reported
\* rate, the (mutated) guardrailsState.currentRate, and whether it threw
computeWithdrawal(copy, p) ==
  IF ~p.isWithdrawalMonth
  THEN [withdrawal |-> Zero, guardrailsRate |-> p.currentRate,
        currentRate |-> p.currentRate, threw |-> FALSE]
  ELSE IF p.mode = "percentOfInitial"
  THEN LET annual == Mul(p.initialBalance, p.ratePerYear)
       IN  [withdrawal |-> IF p.frequency = "monthly" THEN Div(annual, Num(12)) ELSE annual,
            guardrailsRate |-> Null, currentRate |-> p.currentRate, threw |-> FALSE]
  ELSE IF p.mode = "percentOfCurrent"
  THEN [withdrawal |-> Mul(p.inflationBasePeriodWithdraw, p.inflationFactor),
        guardrailsRate |-> Null, currentRate |-> p.currentRate, threw |-> FALSE]
  ELSE IF p.mode = "guardrails"
  THEN LET rate   == IF copy = "server"
                     THEN AdjustRate(p.currentRate, p.ytdReturnAfterMarket, p.minRate, p.maxRate)
                     ELSE AdjustRateClient(p.currentRate, p.ytdReturnAfterMarket, p.minRate, p.maxRate)
           annual == Mul(p.balance, rate)
           w      == IF p.frequency = "monthly" THEN Div(annual, Num(12)) ELSE annual
       IN  [withdrawal |-> IF Gt(p.minDollarFloor, Zero) THEN MathMax(w, p.minDollarFloor) ELSE w,
            guardrailsRate |-> rate, currentRate |-> rate, threw |-> FALSE]
  ELSE [withdrawal |-> Zero, guardrailsRate |-> Null,
        currentRate |-> p.currentRate, threw |-> TRUE]

\* ------------------------------------------------ runRetirementMonthly ----

\* "not enough data" test of the server copy and of the client copy
NotEnoughData(endIdxExclusive, length) == endIdxExclusive > length - 1
NotEnoughDataClient(endIdxExclusive, length) == endIdxExclusive > length

\* mutant: the withdrawal is not capped to the balance
CapWithdrawalUncapped(balance, withdrawal) == withdrawal

\* w = Math.min(balance, Math.max(0, withdrawal))
CapWithdrawal(balance, withdrawal) == MathMin(balance, MathMax(Zero, withdrawal))

\* mutant: assignment in place of accumulation
AccumulateLast(totalWithdrawn, w) == w

\* totalWithdrawn += w
Accumulate(totalWithdrawn, w) == Add(totalWithdrawn, w)

\* mutant: a balance of exactly 0 is not ruin
RuinedStrict(balance) == Lt(balance, Zero)

\* if (balance <= 0): the ruin test after the withdrawal
Ruined(balance) == Le(balance, Zero)

RateInvalid(rate) == ~IsFinite(rate) \/ Le(rate, Zero)

\* the guardrails checks before the loop; "" when none throws
GuardrailsError(startRate, minRate, maxRate) ==
  IF RateInvalid(startRate) THEN "Guardrails starting rate must be > 0"
  ELSE IF ~IsFinite(minRate) \/ Lt(minRate, Zero) THEN "Guardrails min rate must be >= 0"
  ELSE IF ~IsFinite(maxRate) \/ Le(maxRate, Zero) THEN "Guardrails max rate must be > 0"
  ELSE IF Gt(minRate, maxRate) THEN "Guardrails min rate must be <= max rate"
  ELSE ""

GuardrailsErrorClient(minR, maxR) ==
  IF ~IsFinite(minR) \/ ~IsFinite(maxR) \/ Gt(minR, maxR)
  THEN "Guardrails min/max invalid" ELSE ""

\* mutant: a negative floor is taken by its absolute value
GuardrailsSetupAbsFloor(a) ==
  IF a.withdrawMode = "guardrails"
  THEN LET startRate == Div(a.withdrawValue, Num(100))
           minRate   == Div(a.guardrailsMinPct, Num(100))
           maxRate   == Div(a.guardrailsMaxPct, Num(100))
       IN  [currentRate |-> clamp(startRate, minRate, maxRate),
            minRate |-> minRate, maxRate |-> maxRate,
            minDollarFloor |-> IF IsFinite(a.guardrailsMinDollar)
                               THEN MathMax(Neg(a.guardrailsMinDollar), a.guardrailsMinDollar)
                               ELSE Zero]
  ELSE [currentRate |-> Null, minRate |-> Zero, maxRate |-> One, minDollarFloor |-> Zero]

\* guardrailsState and guardrailsConfig as set up for one run
GuardrailsSetup(a) ==
  IF a.withdrawMode = "guardrails"
  THEN LET startRate == Div(a.withdrawValue, Num(100))
           minRate   == Div(a.guardrailsMinPct, Num(100))
           maxRate   == Div(a.guardrailsMaxPct, Num(100))
       IN  [currentRate |-> clamp(startRate, minRate, maxRate),
            minRate |-> minRate, maxRate |-> maxRate,
            minDollarFloor |-> IF IsFinite(a.guardrailsMinDollar)
                               THEN MathMax(Zero, a.guardrailsMinDollar) ELSE Zero]
  ELSE [currentRate |-> Null, minRate |-> Zero, maxRate |-> One, minDollarFloor |-> Zero]

\* mutant: the monthly base is not divided by 12
InflationBaseNoMonthlyShare(a) ==
  IF a.withdrawMode = "percentOfCurrent"
  THEN Mul(a.initialBalance, Div(a.withdrawValue, Num(100)))
  ELSE Zero

InflationBase(a) ==
  IF a.withdrawMode = "percentOfCurrent"
  THEN LET annual == Mul(a.initialBalance, Div(a.withdrawValue, Num(100)))
       IN  IF a.withdrawFrequency = "monthly" THEN Div(annual, Num(12)) ELSE annual
  ELSE Zero

\* the error the call throws before its loop, "" when it reaches the loop
RunPrecheck(copy, monthly, a) ==
  LET startIdx        == findMonthIndex(monthly, a.startMonth)
      endIdxExclusive == startIdx + a.durationYears * 12
      rate            == Div(a.withdrawValue, Num(100))
  IN  IF startIdx < 0 THEN "startMonth not found"
      ELSE IF copy = "server"
      THEN IF NotEnoughData(endIdxExclusive, Len(monthly)) THEN "Not enough data"
           ELSE IF a.withdrawMode = "guardrails"
                THEN GuardrailsError(rate, Div(a.guardrailsMinPct, Num(100)),
                                     Div(a.guardrailsMaxPct, Num(100)))
                ELSE ""
      ELSE IF NotEnoughDataClient(endIdxExclusive, Len(monthly)) THEN "Not enough data"
           ELSE IF RateInvalid(rate) THEN "Withdraw % must be > 0"
           ELSE IF a.withdrawMode = "guardrails"
                THEN GuardrailsErrorClient(Div(a.guardrailsMinPct, Num(100)),
                                           Div(a.guardrailsMaxPct, Num(100)))
                ELSE ""

\* mutant: the extrema start from 0 instead of the initial balance
RunLocalsZeroExtrema(monthly, a) ==
  LET startIdx == findMonthIndex(monthly, a.startMonth)
      g        == GuardrailsSetup(a)
  IN  [i |-> startIdx,
       endIdxExclusive |-> startIdx + a.durationYears * 12,
       balance |-> a.initialBalance,
       success |-> TRUE,
       totalWithdrawn |-> Zero,
       highestBalance |-> Zero,
       lowestBalance |-> Zero,
       peak |-> a.initialBalance,
       maxDrawdown |-> Zero,
       currentRate |-> g.currentRate,
       currentYear |-> monthly[startIdx + 1].month.y,
       yearStartBalance |-> a.initialBalance,
       inflationFactor |-> One,
       balanceAfterMarket |-> a.initialBalance,
       series |-> <<>>,
       threw |-> ""]

\* mutant: the year-start balance is not set to the initial balance
RunLocalsNoYearStart(monthly, a) ==
  LET startIdx == findMonthIndex(monthly, a.startMonth)
      g        == GuardrailsSetup(a)
  IN  [i |-> startIdx,
       endIdxExclusive |-> startIdx + a.durationYears * 12,
       balance |-> a.initialBalance,
       success |-> TRUE,
       totalWithdrawn |-> Zero,
       highestBalance |-> a.initialBalance,
       lowestBalance |-> a.initialBalance,
       peak |-> a.initialBalance,
       maxDrawdown |-> Zero,
       currentRate |-> g.currentRate,
       currentYear |-> monthly[startIdx + 1].month.y,
       yearStartBalance |-> Zero,
       inflationFactor |-> One,
       balanceAfterMarket |-> a.initialBalance,
       series |-> <<>>,
       threw |-> ""]

\* the locals of runRetirementMonthly on entry to its loop
RunLocals(monthly, a) ==
  LET startIdx == findMonthIndex(monthly, a.startMonth)
      g        == GuardrailsSetup(a)
  IN  [i |-> startIdx,
       endIdxExclusive |-> startIdx + a.durationYears * 12,
       balance |-> a.initialBalance,
       success |-> TRUE,
       totalWithdrawn |-> Zero,
       highestBalance |-> a.initialBalance,
       lowestBalance |-> a.initialBalance,
       peak |-> a.initialBalance,
       maxDrawdown |-> Zero,
       currentRate |-> g.currentRate,
       currentYear |-> monthly[startIdx + 1].month.y,
       yearStartBalance |-> a.initialBalance,
       inflationFactor |-> One,
       balanceAfterMarket |-> a.initialBalance,
       series |-> <<>>,
       threw |-> ""]

NoLocals ==
  [i |-> 0, endIdxExclusive |-> 0, balance |-> Zero, success |-> TRUE,
   totalWithdrawn |-> Zero, highestBalance |-> Zero, lowestBalance |-> Zero,
   peak |-> Zero, maxDrawdown |-> Zero, currentRate |-> Null, currentYear |-> 0,
   yearStartBalance |-> Zero, inflationFactor |-> One, balanceAfterMarket |-> Zero,
   series |-> <<>>, threw |-> ""]

\* one iteration of the month loop of runRetirementMonthly on locals st
RunMonthStep(copy, monthly, a, st) ==
  LET returns  == buildReturns(monthly)
      monthStr == monthly[st.i + 1].month
      y        == monthStr.y
      m        == monthStr.m
      yearStartBalance == IF y # st.currentYear THEN st.balance ELSE st.yearStartBalance
      afterMarket == Mul(st.balance, Add(One, returns[st.i + 1]))
      ytdReturnAfterMarket ==
        IF Gt(yearStartBalance, Zero)
        THEN Sub(Div(afterMarket, yearStartBalance), One) ELSE Zero
      isWithdrawalMonth == IF a.withdrawFrequency = "monthly" THEN TRUE ELSE m = 1
      baseRateDecimal == Div(a.withdrawValue, Num(100))
      g  == GuardrailsSetup(a)
      cw == computeWithdrawal(copy,
              [mode |-> a.withdrawMode, ratePerYear |-> baseRateDecimal,
               initialBalance |-> a.initialBalance, balance |-> afterMarket,
               frequency |-> a.withdrawFrequency, currentRate |-> st.currentRate,
               minRate |-> g.minRate, maxRate |-> g.maxRate,
               minDollarFloor |-> g.minDollarFloor,
               ytdReturnAfterMarket |-> ytdReturnAfterMarket,
               isWithdrawalMonth |-> isWithdrawalMonth,
               inflationBasePeriodWithdraw |-> InflationBase(a),
               inflationFactor |-> st.inflationFactor])
      w        == CapWithdrawal(afterMarket, cw.withdrawal)
      afterW   == Sub(afterMarket, w)
      ruined   == Ruined(afterW)
      balance  == IF ruined THEN Zero ELSE afterW
      peak     == MathMax(st.peak, balance)
      dd       == IF Gt(peak, Zero) THEN Div(Sub(peak, balance), peak) ELSE Zero
      monthlyInfl == monthlyInflationRateFromAnnualPct(
                       IF IsFinite(a.annualInflationPct) THEN a.annualInflationPct ELSE Num(3))
  IN  IF copy = "server" /\ RateInvalid(baseRateDecimal)
      THEN [st EXCEPT !.threw = "Withdraw rate must be > 0",
                      !.currentYear = y, !.yearStartBalance = yearStartBalance,
                      !.balance = afterMarket, !.balanceAfterMarket = afterMarket]
      ELSE IF cw.threw
      THEN [st EXCEPT !.threw = "Unknown withdrawal mode",
                      !.currentYear = y, !.yearStartBalance = yearStartBalance,
                      !.balance = afterMarket, !.balanceAfterMarket = afterMarket]
      ELSE [st EXCEPT
              !.i = st.i + 1,
              !.currentYear = y,
              !.yearStartBalance = yearStartBalance,
              !.balanceAfterMarket = afterMarket,
              !.currentRate = cw.currentRate,
              !.balance = balance,
              !.totalWithdrawn = Accumulate(st.totalWithdrawn, w),
              !.success = IF ruined THEN FALSE ELSE st.success,
              !.highestBalance = MathMax(st.highestBalance, balance),
              !.lowestBalance = MathMin(st.lowestBalance, balance),
              !.peak = peak,
              !.maxDrawdown = MathMax(st.maxDrawdown, dd),
              !.series = Append(st.series,
                 [month |-> monthStr, value |-> balance, withdrawal |-> w,
                  guardrailsRatePct |-> IF IsNull(cw.guardrailsRate) THEN Null
                                        ELSE Mul(cw.guardrailsRate, Num(100)),
                  inflationFactor |-> IF a.withdrawMode = "percentOfCurrent"
                                      THEN st.inflationFactor ELSE Null]),
              !.inflationFactor = IF a.withdrawMode = "percentOfCurrent"
                                  THEN Mul(st.inflationFactor, Add(One, monthlyInfl))
                                  ELSE st.inflationFactor]

\* mutant: no break after ruin
RunContinuesNoBreak(st) == st.i < st.endIdxExclusive

\* the loop goes on: i < endIdxExclusive, and no break after ruin
RunContinues(st) == st.success /\ st.i < st.endIdxExclusive

\* the loop of runRetirementMonthly from locals st to its exit
RECURSIVE RunLoop(_, _, _, _)
RunLoop(copy, monthly, a, st) ==
  IF st.threw # "" \/ ~RunContinues(st) THEN st
  ELSE RunLoop(copy, monthly, a, RunMonthStep(copy, monthly, a, st))

\* mutant: the drawdown of the last month is reported, not the maximum
RunResultLastDrawdown(st) ==
  [success |-> st.success, totalWithdrawn |-> st.totalWithdrawn,
   endingValue |-> st.balance,
   maxDrawdown |-> IF Gt(st.peak, Zero)
                   THEN Div(Sub(st.peak, st.balance), st.peak) ELSE Zero,
   highestBalance |-> st.highestBalance, lowestBalance |-> st.lowestBalance,
   series |-> st.series]

\* the object runRetirementMonthly returns from locals st
RunResult(st) ==
  [success |-> st.success, totalWithdrawn |-> st.totalWithdrawn,
   endingValue |-> st.balance, maxDrawdown |-> st.maxDrawdown,
   highestBalance |-> st.highestBalance, lowestBalance |-> st.lowestBalance,
   series |-> st.series]

\* the whole call: [threw, result]
runRetirementMonthly(copy, monthly, a) ==
  LET pre == RunPrecheck(copy, monthly, a)
      st  == RunLoop(copy, monthly, a, RunLocals(monthly, a))
  IN  IF pre # "" THEN [threw |-> pre, result |-> RunResult(NoLocals)]
      ELSE [threw |-> st.threw, result |-> RunResult(st)]

\* ------------------------------------- runRetirementSuccessByStartYear ----

\* the locals of the sweep before its outer loop
SweepLocals ==
  [i |-> 0, results |-> <<>>, endingBalances |-> <<>>,
   highestBalanceHit |-> NegInf, lowestBalanceHit |-> PosInf,
   t |-> 0, endIdxExclusive |-> 0, balance |-> Zero, success |-> TRUE,
   highest |-> Zero, lowest |-> Zero, currentYear |-> 0,
   yearStartBalance |-> Zero, currentRate |-> Null, inflationFactor |-> One,
   threw |-> ""]

\* the error the sweep throws before its outer loop, "" when none
SweepPrecheck(copy, a) ==
  IF copy = "client" /\ RateInvalid(Div(a.withdrawValue, Num(100)))
  THEN "Withdraw % must be > 0" ELSE ""

\* the outer loop skips to the next index whose month is January
NextJanuary(monthly, i) ==
  LET J == {j \in i..(Len(monthly) - 1) : monthly[j + 1].month.m = 1}
  IN  IF J = {} THEN Len(monthly) ELSE CHOOSE j \in J : \A k \in J : j <= k

\* the outer loop breaks at a January whose window does not fit
SweepBreaks(copy, monthly, a, i) ==
  IF copy = "server" THEN NotEnoughData(i + a.durationYears * 12, Len(monthly))
  ELSE NotEnoughDataClient(i + a.durationYears * 12, Len(monthly))

\* mutant: the policy state of the previous start year's run is kept
SweepBeginStale(monthly, a, sw) ==
  [sw EXCEPT !.t = sw.i,
             !.endIdxExclusive = sw.i + a.durationYears * 12,
             !.balance = a.initialBalance,
             !.success = TRUE,
             !.highest = a.initialBalance,
             !.lowest = a.initialBalance,
             !.currentYear = monthly[sw.i + 1].month.y,
             !.yearStartBalance = a.initialBalance,
             !.currentRate = IF IsNull(sw.currentRate)
                             THEN GuardrailsSetup(a).currentRate ELSE sw.currentRate]

\* the per-start-year locals for the January at index sw.i
SweepBegin(monthly, a, sw) ==
  [sw EXCEPT !.t = sw.i,
             !.endIdxExclusive = sw.i + a.durationYears * 12,
             !.balance = a.initialBalance,
             !.success = TRUE,
             !.highest = a.initialBalance,
             !.lowest = a.initialBalance,
             !.currentYear = monthly[sw.i + 1].month.y,
             !.yearStartBalance = a.initialBalance,
             !.currentRate = GuardrailsSetup(a).currentRate,
             !.inflationFactor = One]

\* one iteration of the inner month loop of the sweep
SweepMonthStep(copy, monthly, a, sw) ==
  LET returns  == buildReturns(monthly)
      ms       == monthly[sw.t + 1].month
      y        == ms.y
      mon      == ms.m
      yearStartBalance == IF y # sw.currentYear THEN sw.balance ELSE sw.yearStartBalance
      afterMarket == Mul(sw.balance, Add(One, returns[sw.t + 1]))
      ytdReturnAfterMarket ==
        IF Gt(yearStartBalance, Zero)
        THEN Sub(Div(afterMarket, yearStartBalance), One) ELSE Zero
      isWithdrawalMonth == IF a.withdrawFrequency = "monthly" THEN TRUE ELSE mon = 1
      g  == GuardrailsSetup(a)
      cw == computeWithdrawal(copy,
              [mode |-> a.withdrawMode, ratePerYear |-> Div(a.withdrawValue, Num(100)),
               initialBalance |-> a.initialBalance, balance |-> afterMarket,
               frequency |-> a.withdrawFrequency, currentRate |-> sw.currentRate,
               minRate |-> g.minRate, maxRate |-> g.maxRate,
               minDollarFloor |-> g.minDollarFloor,
               ytdReturnAfterMarket |-> ytdReturnAfterMarket,
               isWithdrawalMonth |-> isWithdrawalMonth,
               inflationBasePeriodWithdraw |-> InflationBase(a),
               inflationFactor |-> sw.inflationFactor])
      w        == CapWithdrawal(afterMarket, cw.withdrawal)
      afterW   == Sub(afterMarket, w)
      monthlyInfl == monthlyInflationRateFromAnnualPct(
                       IF IsFinite(a.annualInflationPct) THEN a.annualInflationPct ELSE Num(3))
  IN  IF cw.threw
      THEN [sw EXCEPT !.threw = "Unknown withdrawal mode"]
      ELSE IF Ruined(afterW)
      THEN [sw EXCEPT !.currentYear = y, !.yearStartBalance = yearStartBalance,
                      !.currentRate = cw.currentRate,
                      !.balance = Zero, !.success = FALSE]
      ELSE [sw EXCEPT !.t = sw.t + 1,
                      !.currentYear = y, !.yearStartBalance = yearStartBalance,
                      !.currentRate = cw.currentRate,
                      !.balance = afterW,
                      !.highest = MathMax(sw.highest, afterW),
                      !.lowest = MathMin(sw.lowest, afterW),
                      !.inflationFactor = IF a.withdrawMode = "percentOfCurrent"
                                          THEN Mul(sw.inflationFactor, Add(One, monthlyInfl))
                                          ELSE sw.inflationFactor]

\* the inner loop goes on: t < endIdxExclusive, and no break after ruin
SweepContinues(sw) == sw.success /\ sw.t < sw.endIdxExclusive

\* after the inner loop: fold the run into the sweep and push its YearOutcome
SweepRecordStep(monthly, a, sw) ==
  [sw EXCEPT !.highestBalanceHit = MathMax(sw.highestBalanceHit, sw.highest),
             !.lowestBalanceHit = MathMin(sw.lowestBalanceHit, sw.lowest),
             !.results = Append(sw.results,
                [startYear |-> monthly[sw.i + 1].month.y,
                 passed |-> sw.success,
                 startingBalance |-> a.initialBalance,
                 highestBalance |-> sw.highest,
                 lowestBalance |-> sw.lowest,
                 endingBalance |-> sw.balance]),
             !.endingBalances = Append(sw.endingBalances, sw.balance),
             !.i = sw.i + 1]

RECURSIVE SumSeq(_)
SumSeq(s) == IF s = <<>> THEN Zero ELSE Add(Head(s), SumSeq(Tail(s)))

\* mutant: successRate without the guard on total
SweepSummaryUnguarded(sw) ==
  LET total     == Len(sw.results)
      successes == Cardinality({k \in 1..total : sw.results[k].passed})
  IN  [totalStartYearsTested |-> total,
       successes |-> successes,
       successRate |-> Div(Num(successes), Num(total)),
       averageEndingBalance |-> IF total # 0
                                THEN Div(SumSeq(sw.endingBalances), Num(total)) ELSE Null,
       medianEndingBalance |-> IF total # 0 THEN median(sw.endingBalances) ELSE Null,
       highestBalanceHit |-> IF IsFinite(sw.highestBalanceHit)
                             THEN sw.highestBalanceHit ELSE Null,
       lowestBalanceHit |-> IF IsFinite(sw.lowestBalanceHit)
                            THEN sw.lowestBalanceHit ELSE Null]

\* the summary object of the sweep
SweepSummary(sw) ==
  LET total     == Len(sw.results)
      successes == Cardinality({k \in 1..total : sw.results[k].passed})
  IN  [totalStartYearsTested |-> total,
       successes |-> successes,
       successRate |-> IF total # 0 THEN Rat(successes, total) ELSE Zero,
       averageEndingBalance |-> IF total # 0
                                THEN Div(SumSeq(sw.endingBalances), Num(total)) ELSE Null,
       medianEndingBalance |-> IF total # 0 THEN median(sw.endingBalances) ELSE Null,
       highestBalanceHit |-> IF IsFinite(sw.highestBalanceHit)
                             THEN sw.highestBalanceHit ELSE Null,
       lowestBalanceHit |-> IF IsFinite(sw.lowestBalanceHit)
                            THEN sw.lowestBalanceHit ELSE Null]

\* --------------------------------------------------------------- Inputs ----

MaxLen   == 27      \* longest price series
MaxYears == 1       \* longest durationYears

\* a contiguous monthly series whose first month is 2000-11, so that the
\* Januaries sit at the 0-based indices 2, 14, 26
FirstIndex == 2000 * 12 + 10
MonthAt(k) == Month((FirstIndex + k) \div 12, ((FirstIndex + k) % 12) + 1)

\* closes: 100 up to index p - 1, b from index p on
CloseVals    == {-50, 0, 50, 105, 200}
ChangePoints == {1, 5, 16}
Series(len, p, b) ==
  [k \in 1..len |-> [month |-> MonthAt(k - 1),
                     close |-> IF k - 1 < p THEN Num(100) ELSE Num(b)]]
\* closes that are not finite numbers: 100 everywhere but c at index p
OddCloses == {NaN, PosInf}
OddSeries(len, p, c) ==
  [k \in 1..len |-> [month |-> MonthAt(k - 1),
                     close |-> IF k - 1 = p THEN c ELSE Num(100)]]
SeriesOfLen(len) ==
  {Series(len, p, b) : p \in ChangePoints, b \in CloseVals}
    \cup {Series(len, len, 100)}
    \cup {OddSeries(len, 5, c) : c \in OddCloses}

RunLens   == {MaxLen - 13, MaxLen - 12}
SweepLens == {MaxLen - 13, MaxLen - 12, MaxLen - 1, MaxLen}

\* start months: the first four months of the series and one absent month
StartMonths == {MonthAt(0), MonthAt(1), MonthAt(2), MonthAt(3), Month(1999, 1)}

Policy(mode, value, freq, minPct, maxPct, minDollar, infl) ==
  [withdrawMode |-> mode, withdrawValue |-> value, withdrawFrequency |-> freq,
   guardrailsMinPct |-> minPct, guardrailsMaxPct |-> maxPct,
   guardrailsMinDollar |-> minDollar, annualInflationPct |-> infl]

Policies ==
  { Policy("percentOfInitial", Num(4),   "monthly", NaN, NaN, NaN, Num(0)),
    Policy("percentOfInitial", Num(100), "monthly", NaN, NaN, NaN, Num(0)),
    Policy("percentOfInitial", Num(200), "monthly", NaN, NaN, NaN, Num(0)),
    Policy("percentOfInitial", Num(4),   "annual",  NaN, NaN, NaN, Num(0)),
    Policy("percentOfInitial", Num(200), "annual",  NaN, NaN, NaN, Num(0)),
    Policy("percentOfCurrent", Num(4),   "monthly", NaN, NaN, NaN, Num(0)),
    Policy("percentOfCurrent", Num(1),   "monthly", NaN, NaN, NaN, Num(409500)),
    Policy("percentOfCurrent", Num(4),   "annual",  NaN, NaN, NaN, Num(409500)),
    Policy("guardrails", Num(5), "annual",  Num(3), Num(6), Num(0),   Num(0)),
    Policy("guardrails", Num(5), "monthly", Num(3), Num(6), Num(100), Num(0)),
    Policy("guardrails", Num(5), "monthly", Rat(19, 4), Rat(21, 4), Num(100), Num(0)),
    Policy("guardrails", Num(8), "annual",  Num(3), Num(6), NaN,      Num(0)),
    Policy("guardrails", Num(5), "annual",  Num(6), Num(3), Num(0),   Num(0)),
    Policy("percentOfInitial", Num(0),   "monthly", NaN, NaN, NaN, Num(0)),
    Policy("percentOfInitial", NaN,      "monthly", NaN, NaN, NaN, Num(0)),
    Policy("bogus",            Num(4),   "monthly", NaN, NaN, NaN, Num(0)) }

InitialBalances == {Num(1200)}

Args(pol, initialBalance, startMonth, durationYears) ==
  [initialBalance |-> initialBalance, startMonth |-> startMonth,
   durationYears |-> durationYears,
   withdrawMode |-> pol.withdrawMode, withdrawValue |-> pol.withdrawValue,
   withdrawFrequency |-> pol.withdrawFrequency,
   guardrailsMinPct |-> pol.guardrailsMinPct, guardrailsMaxPct |-> pol.guardrailsMaxPct,
   guardrailsMinDollar |-> pol.guardrailsMinDollar,
   annualInflationPct |-> pol.annualInflationPct]

\* closes that double every month: every return after index 0 is 1
GrowthSeries(len) ==
  [k \in 1..len |-> [month |-> MonthAt(k - 1), close |-> Pow(Num(2), k - 1)]]

\* percentOfInitial paid monthly, the monthly share below the return of 1
GrowthPolicies ==
  { Policy("percentOfInitial", Num(4),   "monthly", NaN, NaN, NaN, Num(0)),
    Policy("percentOfInitial", Num(100), "monthly", NaN, NaN, NaN, Num(0)),
    Policy("percentOfInitial", Num(200), "monthly", NaN, NaN, NaN, Num(0)),
    Policy("percentOfInitial", Num(900), "monthly", NaN, NaN, NaN, Num(0)) }

\* closes that move in January 2001 (index 2) by 3, 5, 8 and 10 per cent, so
\* that the year-to-date return of a January withdrawal is that return
JanuaryCloses == {103, 105, 108, 110}
GuardrailsSeries(len) ==
  {Series(len, 2, b) : b \in JanuaryCloses} \cup {Series(len, 5, 200), Series(len, 5, 50)}

\* the guardrails policies, and annual ones with a dollar floor of 100 and of -50
GuardrailsPolicies ==
  {pol \in Policies : pol.withdrawMode = "guardrails"}
    \cup { Policy("guardrails", Num(5), "annual", Num(3), Num(6), Num(100), Num(0)),
           Policy("guardrails", Num(5), "annual", Num(3), Num(6), Num(-50), Num(0)) }

\* policies that leave the inflation assumption or the dollar floor missing
\* (null), non-finite or negative; the inflation-adjusted ones ask for the
\* whole initial balance every month, so that their runs last a month or two
DefaultsPolicies ==
  {Policy("percentOfCurrent", Num(1200), "monthly", NaN, NaN, NaN, infl) :
     infl \in {NaN, Null, PosInf}}
    \cup {Policy("guardrails", Num(5), "annual", Num(3), Num(6), floor, Num(0)) :
            floor \in {NaN, Null, Num(-100)}}
DefaultsSeries(len) ==
  {Series(len, 1, 200), Series(len, 2, 105), Series(len, 5, 50), Series(len, len, 100)}

\* ------------------------------------------------------- State machine ----

VARIABLES copy, op, monthly, args, pc, run, sweep, threw, ret, out

vars == <<copy, op, monthly, args, pc, run, sweep, threw, ret, out>>

NoOut == [summary |-> SweepSummary(SweepLocals), results |-> <<>>]

Init ==
  /\ copy \in {"server", "client"}
  /\ op \in {"run", "sweep"}
  /\ monthly \in UNION {SeriesOfLen(len) : len \in IF op = "run" THEN RunLens ELSE SweepLens}
  /\ \E pol \in Policies, b \in InitialBalances, d \in 0..MaxYears :
       \E sm \in IF op = "run" THEN StartMonths ELSE {MonthAt(2)} :
         args = Args(pol, b, sm, d)
  /\ pc = "call"
  /\ run = NoLocals
  /\ sweep = SweepLocals
  /\ threw = ""
  /\ ret = RunResult(NoLocals)
  /\ out = NoOut

\* runRetirementMonthly up to its loop
RunEnter ==
  /\ pc = "call" /\ op = "run"
  /\ LET pre == RunPrecheck(copy, monthly, args)
     IN  IF pre # ""
         THEN pc' = "threw" /\ threw' = pre /\ run' = run
         ELSE pc' = "loop" /\ threw' = threw /\ run' = RunLocals(monthly, args)
  /\ UNCHANGED <<copy, op, monthly, args, sweep, ret, out>>

\* one month of the loop of runRetirementMonthly
RunMonth ==
  /\ pc = "loop" /\ RunContinues(run)
  /\ run' = RunMonthStep(copy, monthly, args, run)
  /\ IF run'.threw # ""
     THEN pc' = "threw" /\ threw' = run'.threw
     ELSE pc' = pc /\ threw' = threw
  /\ UNCHANGED <<copy, op, monthly, args, sweep, ret, out>>

\* loop exit (horizon reached, or break after ruin) and return
RunReturn ==
  /\ pc = "loop" /\ ~RunContinues(run)
  /\ ret' = RunResult(run)
  /\ pc' = "returned"
  /\ UNCHANGED <<copy, op, monthly, args, run, sweep, threw, out>>

\* runRetirementSuccessByStartYear up to its outer loop
SweepEnter ==
  /\ pc = "call" /\ op = "sweep"
  /\ LET pre == SweepPrecheck(copy, args)
     IN  IF pre # ""
         THEN pc' = "threw" /\ threw' = pre
         ELSE pc' = "scan" /\ threw' = threw
  /\ UNCHANGED <<copy, op, monthly, args, run, sweep, ret, out>>

\* the outer loop reaches a January whose window fits and sets up its run
SweepScan ==
  /\ pc = "scan"
  /\ LET j == NextJanuary(monthly, sweep.i)
     IN  /\ j < Len(monthly)
         /\ ~SweepBreaks(copy, monthly, args, j)
         /\ sweep' = SweepBegin(monthly, args, [sweep EXCEPT !.i = j])
  /\ pc' = "inner"
  /\ UNCHANGED <<copy, op, monthly, args, run, threw, ret, out>>

\* one month of the inner loop of the sweep
SweepMonth ==
  /\ pc = "inner" /\ SweepContinues(sweep)
  /\ sweep' = SweepMonthStep(copy, monthly, args, sweep)
  /\ IF sweep'.threw # ""
     THEN pc' = "threw" /\ threw' = sweep'.threw
     ELSE pc' = pc /\ threw' = threw
  /\ UNCHANGED <<copy, op, monthly, args, run, ret, out>>

\* inner loop exit: record the start year's outcome
SweepRecord ==
  /\ pc = "inner" /\ ~SweepContinues(sweep)
  /\ sweep' = SweepRecordStep(monthly, args, sweep)
  /\ pc' = "scan"
  /\ UNCHANGED <<copy, op, monthly, args, run, threw, ret, out>>

\* outer loop exit (end of series, or break) and return
SweepReturn ==
  /\ pc = "scan"
  /\ LET j == NextJanuary(monthly, sweep.i)
     IN  j >= Len(monthly) \/ SweepBreaks(copy, monthly, args, j)
  /\ out' = [summary |-> SweepSummary(sweep), results |-> sweep.results]
  /\ pc' = "returned"
  /\ UNCHANGED <<copy, op, monthly, args, run, sweep, threw, ret>>

Next ==
  \/ RunEnter
  \/ RunMonth
  \/ RunReturn
  \/ SweepEnter
  \/ SweepScan
  \/ SweepMonth
  \/ SweepRecord
  \/ SweepReturn

Spec == Init /\ [][Next]_vars

\* calls on a steadily growing market, of at most one year
InitGrowth ==
  /\ copy \in {"server", "client"}
  /\ op \in {"run", "sweep"}
  /\ monthly \in {GrowthSeries(len) : len \in IF op = "run" THEN RunLens ELSE SweepLens}
  /\ \E pol \in GrowthPolicies, b \in InitialBalances, d \in {0, 1} :
       \E sm \in IF op = "run" THEN {MonthAt(0), MonthAt(1), MonthAt(2), MonthAt(3)}
                  ELSE {MonthAt(2)} :
         args = Args(pol, b, sm, d)
  /\ pc = "call"
  /\ run = NoLocals
  /\ sweep = SweepLocals
  /\ threw = ""
  /\ ret = RunResult(NoLocals)
  /\ out = NoOut

SpecGrowth == InitGrowth /\ [][Next]_vars

\* calls under the guardrails policies
InitGuardrails ==
  /\ copy \in {"server", "client"}
  /\ op \in {"run", "sweep"}
  /\ monthly \in UNION {GuardrailsSeries(len) :
                          len \in IF op = "run" THEN RunLens ELSE SweepLens}
  /\ \E pol \in GuardrailsPolicies, b \in InitialBalances, d \in 0..MaxYears :
       \E sm \in IF op = "run" THEN StartMonths ELSE {MonthAt(2)} :
         args = Args(pol, b, sm, d)
  /\ pc = "call"
  /\ run = NoLocals
  /\ sweep = SweepLocals
  /\ threw = ""
  /\ ret = RunResult(NoLocals)
  /\ out = NoOut

SpecGuardrails == InitGuardrails /\ [][Next]_vars

\* calls that rely on the defaults
InitDefaults ==
  /\ copy \in {"server", "client"}
  /\ op \in {"run", "sweep"}
  /\ monthly \in UNION {DefaultsSeries(len) :
                          len \in IF op = "run" THEN RunLens ELSE SweepLens}
  /\ \E pol \in DefaultsPolicies, b \in InitialBalances, d \in 0..MaxYears :
       \E sm \in IF op = "run" THEN StartMonths ELSE {MonthAt(2)} :
         args = Args(pol, b, sm, d)
  /\ pc = "call"
  /\ run = NoLocals
  /\ sweep = SweepLocals
  /\ threw = ""
  /\ ret = RunResult(NoLocals)
  /\ out = NoOut

SpecDefaults == InitDefaults /\ [][Next]_vars

\* --------------------------------------------------------------- Claims ----

Returned(o) == pc = "returned" /\ op = o

RECURSIVE SumWithdrawals(_)
SumWithdrawals(series) ==
  IF series = <<>> THEN Zero
  ELSE Add(SumWithdrawals(SubSeq(series, 1, Len(series) - 1)),
           series[Len(series)].withdrawal)

\* C1: in every result runRetirementMonthly returns, every series value is
\* >= 0, and a value of 0 occurs only in the last entry of the series
C1_NoEntryAfterRuin ==
  Returned("run") =>
    \A k \in 1..Len(ret.series) :
      /\ Ge(ret.series[k].value, Zero)
      /\ ret.series[k].value = Zero => k = Len(ret.series)

\* a ruined run of more than one month, stopped before its horizon
C1_Witness ==
  /\ Returned("run") /\ ~ret.success
  /\ Len(ret.series) >= 2
  /\ Len(ret.series) < args.durationYears * 12
  /\ ret.series[Len(ret.series)].value = Zero

\* C2: in every simulated month the recorded withdrawal w satisfies
\* 0 <= w <= balance after that month's market return, for any finite closes
C2_WithdrawalWithinBalance ==
  (op = "run" /\ pc \in {"loop", "returned"} /\ Len(run.series) > 0) =>
    LET w == run.series[Len(run.series)].withdrawal
    IN  Le(Zero, w) /\ Le(w, run.balanceAfterMarket)

\* C3: totalWithdrawn of a returned result is the sum of the recorded
\* withdrawals, the ruin month included
C3_TotalIsSumOfWithdrawals ==
  Returned("run") => ret.totalWithdrawn = SumWithdrawals(ret.series)

\* a ruined run that withdrew in several months, the last one included
C3_Witness ==
  /\ Returned("run") /\ ~ret.success
  /\ Len(ret.series) >= 2
  /\ \A k \in 1..Len(ret.series) : Gt(ret.series[k].withdrawal, Zero)

\* C6: a returned run is either a success with durationYears*12 entries,
\* all > 0, or a failure whose last entry and endingValue are 0; a balance
\* reaching 0 only in the final month of the horizon is a failure
C6_TerminalOutcomes ==
  Returned("run") =>
    LET n == Len(ret.series)
    IN  /\ ret.success =>
             /\ n = args.durationYears * 12
             /\ \A k \in 1..n : Gt(ret.series[k].value, Zero)
        /\ ~ret.success =>
             /\ n >= 1
             /\ ret.series[n].value = Zero
             /\ ret.endingValue = Zero
        /\ (n = args.durationYears * 12 /\ n >= 1 /\ ret.series[n].value = Zero)
             => ~ret.success

\* ruin in the final month of the horizon, not before
C6_Witness ==
  /\ Returned("run") /\ ~ret.success
  /\ args.durationYears >= 1
  /\ Len(ret.series) = args.durationYears * 12

\* a run that completes its horizon
C6_WitnessSuccess ==
  /\ Returned("run") /\ ret.success
  /\ args.durationYears >= 1

InRateBounds(rate) ==
  LET g == GuardrailsSetup(args)
  IN  Le(g.minRate, rate) /\ Le(rate, g.maxRate)

WithinOneStep(r1, r2) == Le(Sub(r1, r2), Step) /\ Le(Sub(r2, r1), Step)

\* C4: under guardrails, in a single run and in every per-start-year run of
\* the sweep, currentRate lies in [minRate, maxRate] at initialization and
\* after every month, and moves by at most one step between two months
C4_RateWithinBounds ==
  [][ args.withdrawMode = "guardrails" =>
        /\ pc' = "loop"  => InRateBounds(run'.currentRate)
        /\ pc' = "inner" => InRateBounds(sweep'.currentRate)
        /\ (pc = "loop" /\ pc' = "loop")
             => WithinOneStep(run.currentRate, run'.currentRate)
        /\ (pc = "inner" /\ pc' = "inner")
             => WithinOneStep(sweep.currentRate, sweep'.currentRate) ]_vars

\* the start month is absent, or the window runs past the end of the series
DataMissing ==
  LET startIdx == findMonthIndex(monthly, args.startMonth)
  IN  startIdx < 0 \/ startIdx + args.durationYears * 12 > Len(monthly)

ValidPolicy ==
  /\ args.withdrawMode \in {"percentOfInitial", "percentOfCurrent", "guardrails"}
  /\ ~RateInvalid(Div(args.withdrawValue, Num(100)))
  /\ args.withdrawMode = "guardrails" =>
       GuardrailsError(Div(args.withdrawValue, Num(100)),
                       Div(args.guardrailsMinPct, Num(100)),
                       Div(args.guardrailsMaxPct, Num(100))) = ""

\* C5: runRetirementMonthly throws, before any month is simulated, exactly
\* when the start month is absent or startIndex + durationYears*12 exceeds
\* the series length; otherwise (parameters valid) it returns a result
C5_ThrowsExactlyWhenDataMissing ==
  (op = "run" /\ pc # "call") =>
    /\ DataMissing =>
         /\ pc = "threw"
         /\ threw \in {"startMonth not found", "Not enough data"}
         /\ run = NoLocals
    /\ (~DataMissing /\ ValidPolicy) => pc # "threw"

\* the call runRetirementMonthly would make for the k-th outcome's start year
RunOfOutcome(k) ==
  runRetirementMonthly(copy, monthly,
    [args EXCEPT !.startMonth = Month(out.results[k].startYear, 1)])

\* C7: every YearOutcome of the sweep equals the result of runRetirementMonthly
\* for the same series, start month and parameters, ruined runs included
C7_OutcomeEqualsRun ==
  Returned("sweep") =>
    \A k \in 1..Len(out.results) :
      LET r == RunOfOutcome(k)
          o == out.results[k]
      IN  r.threw = "" =>
            /\ o.passed = r.result.success
            /\ o.endingBalance = r.result.endingValue
            /\ o.highestBalance = r.result.highestBalance
            /\ o.lowestBalance = r.result.lowestBalance

\* the 0-based indices the sweep is to evaluate
EligibleJanuaries ==
  {i \in 0..(Len(monthly) - 1) :
     monthly[i + 1].month.m = 1 /\ i + args.durationYears * 12 <= Len(monthly)}

OutcomeIndex(k) == findMonthIndex(monthly, Month(out.results[k].startYear, 1))

\* C8: the sweep produces exactly one YearOutcome per January index i with
\* i + durationYears*12 <= series length, in ascending order, and no other
C8_OneOutcomePerEligibleJanuary ==
  Returned("sweep") =>
    /\ Len(out.results) = Cardinality(EligibleJanuaries)
    /\ \A k \in 1..Len(out.results) : OutcomeIndex(k) \in EligibleJanuaries
    /\ \A k \in 1..(Len(out.results) - 1) : OutcomeIndex(k) < OutcomeIndex(k + 1)

\* C9: the summary counts the results and the passed results, successRate is
\* successes/total for total > 0; for total = 0 the rate is 0 and the four
\* balance aggregates are null
C9_SummaryCounts ==
  Returned("sweep") =>
    LET total     == Len(out.results)
        successes == Cardinality({k \in 1..total : out.results[k].passed})
        sm        == out.summary
    IN  /\ sm.totalStartYearsTested = total
        /\ sm.successes = successes
        /\ total > 0 => Mul(sm.successRate, Num(total)) = Num(successes)
        /\ total = 0 =>
             /\ sm.successRate = Zero
             /\ IsNull(sm.averageEndingBalance)
             /\ IsNull(sm.medianEndingBalance)
             /\ IsNull(sm.highestBalanceHit)
             /\ IsNull(sm.lowestBalanceHit)

\* a sweep in which no start year qualifies
C9_Witness ==
  /\ Returned("sweep")
  /\ Len(out.results) = 0
  /\ args.durationYears >= 1

\* a sweep with passed and failed start years
C9_WitnessMixed ==
  /\ Returned("sweep")
  /\ \E j, k \in 1..Len(out.results) : out.results[j].passed /\ ~out.results[k].passed

\* extrema of the post-withdrawal trajectory of the k-th run, initial balance included
RECURSIVE FoldValues(_, _, _)
FoldValues(series, acc, isMax) ==
  IF series = <<>> THEN acc
  ELSE FoldValues(Tail(series),
                  IF isMax THEN MathMax(acc, Head(series).value)
                  ELSE MathMin(acc, Head(series).value), isMax)

\* C10: with at least one run, highestBalanceHit / lowestBalanceHit are the
\* maximum / minimum of the post-withdrawal balance over the initial balance
\* and every simulated month of every run; lowestBalanceHit <= every endingBalance
C10_HitsAreTrajectoryExtrema ==
  (Returned("sweep") /\ Len(out.results) > 0) =>
    /\ \A k \in 1..Len(out.results) :
         /\ Le(out.summary.lowestBalanceHit, out.results[k].endingBalance)
         /\ LET r == RunOfOutcome(k)
            IN  r.threw = "" =>
                  /\ Le(out.summary.lowestBalanceHit,
                        FoldValues(r.result.series, args.initialBalance, FALSE))
                  /\ Ge(out.summary.highestBalanceHit,
                        FoldValues(r.result.series, args.initialBalance, TRUE))
    /\ \E k \in 1..Len(out.results) :
         LET r == RunOfOutcome(k)
         IN  r.threw = "" =>
               out.summary.lowestBalanceHit =
                 FoldValues(r.result.series, args.initialBalance, FALSE)
    /\ \E k \in 1..Len(out.results) :
         LET r == RunOfOutcome(k)
         IN  r.threw = "" =>
               out.summary.highestBalanceHit =
                 FoldValues(r.result.series, args.initialBalance, TRUE)

\* the inner month loop of the sweep from locals sw to its exit
RECURSIVE SweepInnerLoop(_, _, _, _)
SweepInnerLoop(c, series, a, sw) ==
  IF sw.threw # "" \/ ~SweepContinues(sw) THEN sw
  ELSE SweepInnerLoop(c, series, a, SweepMonthStep(c, series, a, sw))

\* the months of the k-th outcome's window, preceded by the one month whose
\* close gives the window's first return
WindowSeries(k) ==
  LET i  == OutcomeIndex(k)
      lo == IF i >= 1 THEN i ELSE 1
      hi == IF args.durationYears = 0 THEN i + 1 ELSE i + args.durationYears * 12
  IN  SubSeq(monthly, lo, hi)

\* the outcome of the k-th start year computed alone, on its window only
SoloOutcome(k) ==
  LET ws == WindowSeries(k)
      j  == IF OutcomeIndex(k) >= 1 THEN 1 ELSE 0
      sw == SweepInnerLoop(copy, ws, args,
                           SweepBegin(ws, args, [SweepLocals EXCEPT !.i = j]))
  IN  SweepRecordStep(ws, args, sw).results[1]

\* C11: every per-start-year run of the sweep begins (first month not yet
\* simulated) with balance =
\* initialBalance, inflationFactor = 1 and currentRate = clamp(startRate,
\* minRate, maxRate), and every YearOutcome equals the outcome computed alone
\* from the parameters and the months of its own window
C11_RunsIndependent ==
  /\ (pc = "inner" /\ sweep.t = sweep.i /\ sweep.success) =>
        /\ sweep.balance = args.initialBalance
        /\ sweep.inflationFactor = One
        /\ args.withdrawMode = "guardrails" =>
             sweep.currentRate =
               clamp(Div(args.withdrawValue, Num(100)),
                     Div(args.guardrailsMinPct, Num(100)),
                     Div(args.guardrailsMaxPct, Num(100)))
  /\ Returned("sweep") =>
        \A k \in 1..Len(out.results) : out.results[k] = SoloOutcome(k)

\* a sweep of two start years under a policy whose state moved in the first
\* run, the two outcomes differing
C11_Witness ==
  /\ Returned("sweep")
  /\ Len(out.results) >= 2
  /\ args.durationYears >= 1
  /\ \/ args.withdrawMode = "percentOfCurrent" /\ Gt(args.annualInflationPct, Zero)
     \/ args.withdrawMode = "guardrails"
  /\ out.results[1] # out.results[2]

\* the amount percentOfInitial with annual frequency asks for in a month
AnnualAmount(m) ==
  IF m = 1 THEN Mul(args.initialBalance, Div(args.withdrawValue, Num(100))) ELSE Zero

FixedAnnual ==
  /\ op = "run" /\ pc \in {"loop", "returned"} /\ Len(run.series) > 0
  /\ args.withdrawMode = "percentOfInitial" /\ args.withdrawFrequency = "annual"

\* C12 as stated: under percentOfInitial with annual frequency the recorded
\* withdrawal of every simulated month is initialBalance * rate in January and
\* 0 in every other month, whatever the balance
C12_RecordedIsFixedAnnuity ==
  FixedAnnual =>
    LET e == run.series[Len(run.series)]
    IN  e.withdrawal = AnnualAmount(e.month.m)

\* C12 amended: the recorded withdrawal of every simulated month is the amount
\* initialBalance * rate (January) or 0 (other months) capped to the balance
\* after the month's market return, min(balance, max(0, amount))
C12_RecordedIsCappedAnnuity ==
  FixedAnnual =>
    LET e == run.series[Len(run.series)]
    IN  e.withdrawal =
          MathMin(run.balanceAfterMarket, MathMax(Zero, AnnualAmount(e.month.m)))

\* a January in which the fixed amount exceeds the balance after market
\* return, so that the cap decides the recorded withdrawal
C12_Witness ==
  /\ FixedAnnual
  /\ LET e == run.series[Len(run.series)]
     IN  /\ e.month.m = 1
         /\ Gt(AnnualAmount(1), run.balanceAfterMarket)
         /\ Gt(run.balanceAfterMarket, Zero)

\* a January paid in full and a later month of the same run paying nothing
C12_WitnessPaid ==
  /\ FixedAnnual /\ Len(run.series) >= 2
  /\ run.series[1].withdrawal = AnnualAmount(1)
  /\ run.series[Len(run.series)].withdrawal = Zero

InflationAdjusted ==
  /\ op = "run" /\ pc \in {"loop", "returned"}
  /\ args.withdrawMode = "percentOfCurrent"
  /\ Ge(args.annualInflationPct, Zero)

\* the k-th recorded month is a withdrawal month that the balance survived
PaidInFull(k) ==
  /\ args.withdrawFrequency = "monthly" \/ run.series[k].month.m = 1
  /\ Gt(run.series[k].value, Zero)

\* C13 as stated: under percentOfCurrent with annualInflationPct >= 0 the
\* recorded withdrawals of a run never decrease from one month to the next
C13_WithdrawalsNonDecreasing ==
  InflationAdjusted =>
    \A k \in 1..(Len(run.series) - 1) :
      Le(run.series[k].withdrawal, run.series[k + 1].withdrawal)

\* C13 amended: under percentOfCurrent with annualInflationPct >= 0 the
\* recorded withdrawals never decrease over the withdrawal months that leave
\* a positive balance (the month of ruin records the remaining balance, and
\* the non-January months of an annual schedule record 0)
C13_PaidWithdrawalsNonDecreasing ==
  InflationAdjusted =>
    \A j, k \in 1..Len(run.series) :
      (j < k /\ PaidInFull(j) /\ PaidInFull(k)) =>
        Le(run.series[j].withdrawal, run.series[k].withdrawal)

\* a run with positive inflation whose paid withdrawals grow month over month
C13_Witness ==
  /\ InflationAdjusted /\ Gt(args.annualInflationPct, Zero)
  /\ Len(run.series) >= 3
  /\ \A k \in 1..3 : PaidInFull(k)
  /\ Lt(run.series[1].withdrawal, run.series[2].withdrawal)
  /\ Lt(run.series[2].withdrawal, run.series[3].withdrawal)

\* the return of position i is defined by the two closes around it
ReturnDefined(i) ==
  /\ IsFinite(monthly[i - 1].close) /\ Gt(monthly[i - 1].close, Zero)
  /\ IsFinite(monthly[i].close)

\* C14: for the price series of every finished call, the return series has
\* the length of the price series, its first entry is 0, entry i is
\* close[i]/close[i-1] - 1 when close[i-1] is finite and > 0 and close[i] is
\* finite, and 0 otherwise; no entry is NaN or infinite
C14_ReturnsWellFormed ==
  pc \in {"returned", "threw"} =>
    LET r == buildReturns(monthly)
    IN  /\ DOMAIN r = 1..Len(monthly)
        /\ r[1] = Zero
        /\ \A i \in 2..Len(monthly) :
             /\ IsFinite(r[i])
             /\ ReturnDefined(i) =>
                  Mul(Add(r[i], One), monthly[i - 1].close) = monthly[i].close
             /\ ~ReturnDefined(i) => r[i] = Zero

\* a finished call on a series with a non-zero return and with a position
\* whose previous close is not > 0
C14_Witness ==
  /\ pc = "returned"
  /\ \E i \in 2..Len(monthly) : ReturnDefined(i) /\ buildReturns(monthly)[i] # Zero
  /\ \E i \in 2..Len(monthly) : ~ReturnDefined(i)

\* a finished call on a series with a close that is not a finite number
C14_WitnessNonFinite ==
  /\ pc = "returned"
  /\ \E i \in 2..(Len(monthly) - 1) : ~IsFinite(monthly[i].close)

\* a configuration error: a non-positive or non-finite withdrawal rate,
\* guardrails minRate > maxRate, or an unrecognized withdrawMode
ConfigError ==
  \/ RateInvalid(Div(args.withdrawValue, Num(100)))
  \/ /\ args.withdrawMode = "guardrails"
     /\ Gt(Div(args.guardrailsMinPct, Num(100)), Div(args.guardrailsMaxPct, Num(100)))
  \/ args.withdrawMode \notin {"percentOfInitial", "percentOfCurrent", "guardrails"}

\* C15: runRetirementMonthly called with a configuration error never returns
\* a result, and throws before its month loop is entered (no market return
\* or withdrawal applied), for every start month and both frequencies
C15_ConfigErrorFailsFast ==
  (op = "run" /\ ConfigError) =>
    /\ pc # "returned"
    /\ pc = "threw" => run = NoLocals

\* C16: runRetirementSuccessByStartYear called with a configuration error
\* throws instead of returning a SweepResult, also when no January qualifies
C16_SweepConfigErrorThrows ==
  (op = "sweep" /\ ConfigError) => pc # "returned"

\* the initial balance and every recorded post-withdrawal balance
Trajectory == {args.initialBalance} \cup {ret.series[k].value : k \in 1..Len(ret.series)}

\* C17: in every result of runRetirementMonthly highestBalance is the maximum
\* and lowestBalance the minimum of the initial balance and all series values,
\* so lowestBalance <= initialBalance <= highestBalance and
\* lowestBalance <= endingValue <= highestBalance
C17_ExtremaOfTrajectory ==
  Returned("run") =>
    /\ ret.highestBalance \in Trajectory
    /\ ret.lowestBalance \in Trajectory
    /\ \A v \in Trajectory : Le(ret.lowestBalance, v) /\ Le(v, ret.highestBalance)
    /\ Le(ret.lowestBalance, args.initialBalance)
    /\ Le(args.initialBalance, ret.highestBalance)
    /\ Le(ret.lowestBalance, ret.endingValue)
    /\ Le(ret.endingValue, ret.highestBalance)

\* a completed run that went below and above its initial balance and ended
\* at neither extreme
C17_Witness ==
  /\ Returned("run") /\ ret.success
  /\ Lt(ret.lowestBalance, args.initialBalance)
  /\ Gt(ret.highestBalance, args.initialBalance)
  /\ Lt(ret.lowestBalance, ret.endingValue)
  /\ Lt(ret.endingValue, ret.highestBalance)

\* running maximum of the initial balance and the recorded balances up to month t
PeakAt(t) ==
  LET S == {args.initialBalance} \cup {ret.series[k].value : k \in 1..t}
  IN  CHOOSE p \in S : \A v \in S : Le(v, p)

DrawdownAt(t) ==
  IF Gt(PeakAt(t), Zero)
  THEN Div(Sub(PeakAt(t), ret.series[t].value), PeakAt(t)) ELSE Zero

\* C18: maxDrawdown of every result of runRetirementMonthly is the maximum
\* over the recorded months t of (peak_t - balance_t)/peak_t (0 when
\* peak_t <= 0), peak_t being the running maximum of the initial balance and
\* the post-withdrawal balances up to t; it is 0 when no month was recorded
C18_MaxDrawdownFromRunningPeak ==
  Returned("run") =>
    LET n == Len(ret.series)
    IN  /\ n = 0 => ret.maxDrawdown = Zero
        /\ n > 0 =>
             /\ \E t \in 1..n : ret.maxDrawdown = DrawdownAt(t)
             /\ \A t \in 1..n : Le(DrawdownAt(t), ret.maxDrawdown)

\* a completed run whose deepest drawdown is neither 0 nor the last month's
C18_Witness ==
  /\ Returned("run") /\ ret.success
  /\ Len(ret.series) >= 3
  /\ Gt(ret.maxDrawdown, Zero)
  /\ Lt(DrawdownAt(Len(ret.series)), ret.maxDrawdown)

\* the constant monthly return of the price series, and the monthly share of
\* the annual withdrawal rate
GrowthReturn == buildReturns(monthly)[2]
MonthlyShare == Div(Div(args.withdrawValue, Num(100)), Num(12))

\* a finished run of at least one month on constant returns r > 0, under
\* percentOfInitial paid monthly with rate/12 < r
SteadyGrowthRun ==
  /\ Returned("run")
  /\ args.durationYears >= 1
  /\ Gt(GrowthReturn, Zero)
  /\ \A i \in 2..Len(monthly) : buildReturns(monthly)[i] = GrowthReturn
  /\ args.withdrawMode = "percentOfInitial" /\ args.withdrawFrequency = "monthly"
  /\ Gt(MonthlyShare, Zero) /\ Lt(MonthlyShare, GrowthReturn)

\* C19 as stated: on constant returns r > 0 with rate/12 < r the run succeeds
\* and ends above the initial balance, for every start index, index 0 included
C19_GrowthBeatsWithdrawals ==
  SteadyGrowthRun =>
    /\ ret.success
    /\ Gt(ret.endingValue, args.initialBalance)

\* C19 amended: the same for every start index >= 1; at start index 0, whose
\* first month has return 0, the run succeeds when rate/12 < r/(1+r), and ends
\* above the initial balance when moreover
\* (1 - s - s/r) * (1+r)^(n-1) > 1 - s/r, with s = rate/12 and n months
C19_GrowthBeatsWithdrawalsFromIndexOne ==
  SteadyGrowthRun =>
    LET startIdx == findMonthIndex(monthly, args.startMonth)
        r == GrowthReturn
        s == MonthlyShare
        n == args.durationYears * 12
    IN  /\ startIdx >= 1 =>
             /\ ret.success
             /\ Gt(ret.endingValue, args.initialBalance)
        /\ (startIdx = 0 /\ Lt(s, Div(r, Add(One, r)))) =>
             /\ ret.success
             /\ Gt(Mul(Sub(Sub(One, s), Div(s, r)), Pow(Add(One, r), n - 1)),
                   Sub(One, Div(s, r)))
                  => Gt(ret.endingValue, args.initialBalance)

\* a run from index 0 that dips below the initial balance in its first month
\* and still ends above it
C19_Witness ==
  /\ SteadyGrowthRun
  /\ findMonthIndex(monthly, args.startMonth) = 0
  /\ Lt(ret.series[1].value, args.initialBalance)
  /\ ret.success /\ Gt(ret.endingValue, args.initialBalance)

\* a run from a later index with rate/12 above r/(1+r) that succeeds
C19_WitnessLaterStart ==
  /\ SteadyGrowthRun
  /\ findMonthIndex(monthly, args.startMonth) >= 1
  /\ Ge(MonthlyShare, Div(GrowthReturn, Add(One, GrowthReturn)))
  /\ ret.success

\* the month at 0-based index idx is a withdrawal month
WithdrawalMonthAt(idx) ==
  args.withdrawFrequency = "monthly" \/ monthly[idx + 1].month.m = 1

\* year-to-date return after the market return of the month at index idx,
\* entered with the given balance and left with the given year-start balance
YtdAfterMarket(balance, yearStartBalance, idx) ==
  LET after == Mul(balance, Add(One, buildReturns(monthly)[idx + 1]))
  IN  IF Gt(yearStartBalance, Zero)
      THEN Sub(Div(after, yearStartBalance), One) ELSE Zero

\* the rate the claim expects after a withdrawal month
ExpectedRate(rate, ytd) ==
  LET g    == GuardrailsSetup(args)
      up   == clamp(Add(rate, Rat(25, 10000)), g.minRate, g.maxRate)
      down == clamp(Sub(rate, Rat(25, 10000)), g.minRate, g.maxRate)
  IN  IF Gt(ytd, Rat(8, 100)) THEN up
      ELSE IF Lt(ytd, Rat(3, 100)) THEN down
      ELSE rate

\* C20: in a withdrawal month under guardrails currentRate becomes
\* clamp(rate + 0.0025) when the year-to-date return after market is > 0.08,
\* clamp(rate - 0.0025) when it is < 0.03, and stays as it is for
\* 0.03 <= ytd <= 0.08: one adjustment at most, in the run and in the sweep,
\* in the server copy and in the client copy
C20_GuardrailsAdjustment ==
  [][ args.withdrawMode = "guardrails" =>
        /\ (pc = "loop" /\ RunContinues(run) /\ WithdrawalMonthAt(run.i)) =>
             run'.currentRate =
               ExpectedRate(run.currentRate,
                            YtdAfterMarket(run.balance, run'.yearStartBalance, run.i))
        /\ (pc = "inner" /\ SweepContinues(sweep) /\ WithdrawalMonthAt(sweep.t)) =>
             sweep'.currentRate =
               ExpectedRate(sweep.currentRate,
                            YtdAfterMarket(sweep.balance, sweep'.yearStartBalance, sweep.t)) ]_vars

\* the year-to-date return of the last recorded month of a run
LastYtd == Sub(Div(run.balanceAfterMarket, run.yearStartBalance), One)

GuardrailsJanuary ==
  /\ op = "run" /\ pc = "loop" /\ Len(run.series) = 1
  /\ args.withdrawMode = "guardrails" /\ args.withdrawFrequency = "annual"
  /\ run.series[1].month.m = 1
  /\ Gt(run.yearStartBalance, Zero)

\* a January withdrawal at a year-to-date return of exactly 8%: rate unchanged
C20_Witness ==
  /\ GuardrailsJanuary
  /\ LastYtd = Rat(8, 100)
  /\ run.currentRate = GuardrailsSetup(args).currentRate

\* exactly 3%: rate unchanged
C20_WitnessLowerBound ==
  /\ GuardrailsJanuary
  /\ LastYtd = Rat(3, 100)
  /\ run.currentRate = GuardrailsSetup(args).currentRate

\* above 8%: rate raised by one step; below 3%: lowered by one step
C20_WitnessRaised ==
  /\ GuardrailsJanuary
  /\ Gt(LastYtd, Rat(8, 100))
  /\ run.currentRate = Add(GuardrailsSetup(args).currentRate, Step)

C20_WitnessLowered ==
  /\ GuardrailsJanuary
  /\ Lt(LastYtd, Rat(3, 100))
  /\ run.currentRate = Sub(GuardrailsSetup(args).currentRate, Step)

\* a guardrails run whose last recorded month is a withdrawal month
GuardrailsPaid ==
  /\ op = "run" /\ pc \in {"loop", "returned"} /\ Len(run.series) > 0
  /\ args.withdrawMode = "guardrails"
  /\ \/ args.withdrawFrequency = "monthly"
     \/ run.series[Len(run.series)].month.m = 1

\* the amount guardrails asks for in the last recorded month
GuardrailsRequested ==
  LET floor    == GuardrailsSetup(args).minDollarFloor
      annual   == Mul(run.balanceAfterMarket, run.currentRate)
      computed == IF args.withdrawFrequency = "monthly"
                  THEN Div(annual, Num(12)) ELSE annual
  IN  IF Gt(floor, Zero) /\ Gt(floor, computed) THEN floor ELSE computed

\* C21: in a withdrawal month under guardrails the requested withdrawal is
\* balanceAfterMarket * currentRate (a twelfth of it when monthly) at the rate
\* adjusted in that month, raised to minDollarFloor when the floor is > 0,
\* for both frequencies alike; the amount withdrawn is capped at the balance,
\* so a floor above the balance empties the account and ruins the run
C21_GuardrailsWithdrawal ==
  GuardrailsPaid =>
    LET e     == run.series[Len(run.series)]
        floor == GuardrailsSetup(args).minDollarFloor
    IN  /\ e.guardrailsRatePct = Mul(run.currentRate, Num(100))
        /\ e.withdrawal = IF Lt(GuardrailsRequested, run.balanceAfterMarket)
                          THEN GuardrailsRequested ELSE run.balanceAfterMarket
        /\ (Gt(floor, Zero) /\ Ge(floor, run.balanceAfterMarket)) =>
             /\ e.value = Zero
             /\ ~run.success

\* a month whose floor exceeds the balance after market return: ruin
C21_Witness ==
  /\ GuardrailsPaid
  /\ Gt(run.balanceAfterMarket, Zero)
  /\ Gt(GuardrailsSetup(args).minDollarFloor, run.balanceAfterMarket)
  /\ run.series[Len(run.series)].withdrawal = run.balanceAfterMarket
  /\ ~run.success

\* an annual withdrawal raised to the floor, and a monthly one
C21_WitnessAnnualFloor ==
  /\ GuardrailsPaid /\ args.withdrawFrequency = "annual"
  /\ run.series[Len(run.series)].withdrawal = GuardrailsSetup(args).minDollarFloor
  /\ Lt(Mul(run.balanceAfterMarket, run.currentRate), GuardrailsSetup(args).minDollarFloor)

C21_WitnessMonthlyFloor ==
  /\ GuardrailsPaid /\ args.withdrawFrequency = "monthly"
  /\ run.series[Len(run.series)].withdrawal = GuardrailsSetup(args).minDollarFloor

\* a withdrawal above the floor: the computed amount is paid
C21_WitnessComputed ==
  /\ GuardrailsPaid
  /\ Gt(run.series[Len(run.series)].withdrawal, GuardrailsSetup(args).minDollarFloor)
  /\ run.success

\* (1 + monthlyInflationRate)^k for the inflation assumption of the call
FactorOfMonth(k) ==
  Pow(Add(One, monthlyInflationRateFromAnnualPct(args.annualInflationPct)), k)

\* the per-period amount of the inflation-adjusted policy, from the initial balance
BasePeriodWithdrawal ==
  LET annual == Div(Mul(args.initialBalance, args.withdrawValue), Num(100))
  IN  IF args.withdrawFrequency = "monthly" THEN Div(annual, Num(12)) ELSE annual

\* C22: under percentOfCurrent the inflation factor of the k-th simulated
\* month (k = 0 for the start month) is (1 + monthlyInflationRate)^k: 1 in the
\* first month, advanced once at the end of every simulated month, withdrawal
\* month or not; the withdrawal of a withdrawal month the balance survives is
\* basePeriodWithdrawal * factor, the base coming from initialBalance
C22_InflationFactorCompounds ==
  (op = "run" /\ pc \in {"loop", "returned"} /\ args.withdrawMode = "percentOfCurrent") =>
    /\ run.inflationFactor = FactorOfMonth(Len(run.series))
    /\ \A k \in 1..Len(run.series) :
         /\ run.series[k].inflationFactor = FactorOfMonth(k - 1)
         /\ PaidInFull(k) =>
              run.series[k].withdrawal = Mul(BasePeriodWithdrawal, FactorOfMonth(k - 1))

\* an annual schedule with positive inflation: January paid at factor 1, the
\* factor still advanced in the three months without withdrawal that follow
C22_Witness ==
  /\ op = "run" /\ pc \in {"loop", "returned"}
  /\ args.withdrawMode = "percentOfCurrent" /\ args.withdrawFrequency = "annual"
  /\ Gt(args.annualInflationPct, Zero)
  /\ Len(run.series) >= 4
  /\ run.series[1].month.m = 1
  /\ run.series[1].withdrawal = BasePeriodWithdrawal
  /\ run.series[4].withdrawal = Zero
  /\ run.series[4].inflationFactor = Num(8)

\* a monthly schedule paying base * 2^k in its fourth month
C22_WitnessMonthly ==
  /\ op = "run" /\ pc \in {"loop", "returned"}
  /\ args.withdrawMode = "percentOfCurrent" /\ args.withdrawFrequency = "monthly"
  /\ Len(run.series) >= 4 /\ PaidInFull(4)
  /\ run.series[4].withdrawal = Mul(BasePeriodWithdrawal, Num(8))

\* the guardrailsRatePct a snapshot reports before any adjustment
InitialRatePct ==
  IF args.withdrawMode = "guardrails"
  THEN Mul(GuardrailsSetup(args).currentRate, Num(100)) ELSE Null

\* C23: under annual frequency every recorded month other than January has
\* withdrawal 0 and reports the guardrails rate of the month before it (the
\* starting rate in a first month), which is also the rate the state keeps:
\* the rate changes only in January
C23_NoWithdrawalMonthKeepsRate ==
  (op = "run" /\ pc \in {"loop", "returned"} /\ args.withdrawFrequency = "annual") =>
    /\ \A k \in 1..Len(run.series) :
         run.series[k].month.m # 1 =>
           /\ run.series[k].withdrawal = Zero
           /\ run.series[k].guardrailsRatePct =
                IF k = 1 THEN InitialRatePct ELSE run.series[k - 1].guardrailsRatePct
    /\ (args.withdrawMode = "guardrails" /\ Len(run.series) > 0) =>
         run.series[Len(run.series)].guardrailsRatePct = Mul(run.currentRate, Num(100))

\* a guardrails run whose rate moved in January and was reported unchanged
\* in the months after it
C23_Witness ==
  /\ op = "run" /\ pc \in {"loop", "returned"}
  /\ args.withdrawMode = "guardrails" /\ args.withdrawFrequency = "annual"
  /\ Len(run.series) >= 4
  /\ run.series[2].month.m = 1
  /\ run.series[1].guardrailsRatePct = InitialRatePct
  /\ run.series[2].guardrailsRatePct # InitialRatePct
  /\ run.series[4].guardrailsRatePct = run.series[2].guardrailsRatePct

\* C24 as stated: under guardrails the thresholds are compared and the rate
\* adjusted in every simulated month, months without withdrawal included
C24_AdjustedEveryMonth ==
  [][ (args.withdrawMode = "guardrails" /\ pc = "loop" /\ RunContinues(run)) =>
        run'.currentRate =
          ExpectedRate(run.currentRate,
                       YtdAfterMarket(run.balance, run'.yearStartBalance, run.i)) ]_vars

\* C24 amended: under guardrails the thresholds are compared and the rate
\* adjusted in every withdrawal month and in no other month; under monthly
\* frequency every simulated month is a withdrawal month, so the rate can
\* move by one step in each month of a year
C24_AdjustedEveryWithdrawalMonth ==
  [][ (args.withdrawMode = "guardrails" /\ pc = "loop" /\ RunContinues(run)) =>
        run'.currentRate =
          IF WithdrawalMonthAt(run.i)
          THEN ExpectedRate(run.currentRate,
                            YtdAfterMarket(run.balance, run'.yearStartBalance, run.i))
          ELSE run.currentRate ]_vars

\* a monthly run whose rate moved by one step in each of three months in a row
C24_Witness ==
  /\ op = "run" /\ pc \in {"loop", "returned"}
  /\ args.withdrawMode = "guardrails" /\ args.withdrawFrequency = "monthly"
  /\ Len(run.series) >= 3
  /\ Sub(InitialRatePct, run.series[1].guardrailsRatePct) = Rat(1, 4)
  /\ Sub(run.series[1].guardrailsRatePct, run.series[2].guardrailsRatePct) = Rat(1, 4)
  /\ Sub(run.series[2].guardrailsRatePct, run.series[3].guardrailsRatePct) = Rat(1, 4)

\* an annual run: a month without withdrawal, below the 3% threshold, rate kept
C24_WitnessAnnual ==
  /\ op = "run" /\ pc \in {"loop", "returned"}
  /\ args.withdrawMode = "guardrails" /\ args.withdrawFrequency = "annual"
  /\ Len(run.series) >= 1
  /\ run.series[Len(run.series)].month.m # 1
  /\ Gt(run.yearStartBalance, Zero) /\ Lt(LastYtd, Rat(3, 100))
  /\ Gt(run.currentRate, GuardrailsSetup(args).minRate)

\* the year-start balance the claim describes for the last recorded month:
\* the initial balance in the calendar year of the start month, otherwise the
\* recorded balance of the last month of the previous calendar year
ExpectedYearStart ==
  LET n    == Len(run.series)
      prev == {k \in 1..n : run.series[k].month.y < run.series[n].month.y}
  IN  IF prev = {} THEN args.initialBalance
      ELSE run.series[Cardinality(prev)].value

\* the balance after the market return of the last recorded month
ExpectedAfterMarket ==
  LET n       == Len(run.series)
      before  == IF n = 1 THEN args.initialBalance ELSE run.series[n - 1].value
      idx     == findMonthIndex(monthly, run.series[n].month)
  IN  Mul(before, Add(One, buildReturns(monthly)[idx + 1]))

ExpectedYtd ==
  IF Gt(ExpectedYearStart, Zero)
  THEN Sub(Div(ExpectedAfterMarket, ExpectedYearStart), One) ELSE Zero

\* C25: in every simulated month the year-to-date return is
\* balanceAfterMarket / yearStartBalance - 1 (0 when yearStartBalance <= 0),
\* yearStartBalance being initialBalance in the calendar year of the start
\* month and otherwise the post-withdrawal balance at the end of the previous
\* calendar year; it is the value the guardrails adjustment of the month uses
C25_YearToDateReturn ==
  (op = "run" /\ pc \in {"loop", "returned"} /\ Len(run.series) > 0) =>
    LET n == Len(run.series)
        before == IF n = 1 THEN GuardrailsSetup(args).currentRate
                  ELSE Div(run.series[n - 1].guardrailsRatePct, Num(100))
    IN  /\ run.yearStartBalance = ExpectedYearStart
        /\ run.balanceAfterMarket = ExpectedAfterMarket
        /\ GuardrailsPaid => run.currentRate = ExpectedRate(before, ExpectedYtd)

\* a run started after January that reached the next calendar year: the
\* year-start balance is the December balance, below the initial balance
C25_Witness ==
  /\ op = "run" /\ pc \in {"loop", "returned"} /\ Len(run.series) >= 3
  /\ run.series[1].month.m # 1
  /\ run.series[1].month.y < run.series[Len(run.series)].month.y
  /\ run.yearStartBalance # args.initialBalance
  /\ Gt(run.yearStartBalance, Zero)

\* a mid-year start still in its first calendar year, after a withdrawal
C25_WitnessStartYear ==
  /\ op = "run" /\ pc \in {"loop", "returned"} /\ Len(run.series) >= 2
  /\ run.series[1].month.m = 2
  /\ run.series[1].month.y = run.series[Len(run.series)].month.y
  /\ Lt(run.series[Len(run.series) - 1].value, args.initialBalance)
  /\ run.yearStartBalance = args.initialBalance

\* the outer loop of the sweep from locals sw to its exit
RECURSIVE SweepOuterLoop(_, _, _, _)
SweepOuterLoop(c, series, a, sw) ==
  LET j     == NextJanuary(series, sw.i)
      inner == SweepInnerLoop(c, series, a, SweepBegin(series, a, [sw EXCEPT !.i = j]))
  IN  IF j >= Len(series) \/ SweepBreaks(c, series, a, j) THEN sw
      ELSE IF inner.threw # "" THEN inner
      ELSE SweepOuterLoop(c, series, a, SweepRecordStep(series, a, inner))

\* the whole call: [threw, out]
runRetirementSuccessByStartYear(c, series, a) ==
  LET pre == SweepPrecheck(c, a)
      sw  == SweepOuterLoop(c, series, a, SweepLocals)
  IN  IF pre # "" THEN [threw |-> pre, out |-> NoOut]
      ELSE IF sw.threw # "" THEN [threw |-> sw.threw, out |-> NoOut]
      ELSE [threw |-> "", out |-> [summary |-> SweepSummary(sw), results |-> sw.results]]

\* the call's parameters with the documented defaults written out
DocumentedDefaults ==
  [args EXCEPT
     !.annualInflationPct  = IF IsFinite(@) THEN @ ELSE Num(3),
     !.guardrailsMinDollar = IF IsFinite(@) /\ Ge(@, Zero) THEN @ ELSE Zero]

ReliesOnDefaults == args # DocumentedDefaults

C26_WitnessNegativeFloor ==
  /\ Returned("run") /\ args.withdrawMode = "guardrails"
  /\ Lt(args.guardrailsMinDollar, Zero)
  /\ \E k \in 1..Len(ret.series) :
       /\ Gt(ret.series[k].withdrawal, Zero)
       /\ Lt(ret.series[k].withdrawal, Neg(args.guardrailsMinDollar))

\* a guardrails sweep without a floor that recorded a start year
C26_WitnessSweep ==
  /\ Returned("sweep") /\ args.withdrawMode = "guardrails"
  /\ IsNull(args.guardrailsMinDollar)
  /\ Len(out.results) >= 1

\* C27: a call of the client copy throws exactly when the same call of the
\* server copy throws, and otherwise returns the result the server copy
\* returns, for runRetirementMonthly and for runRetirementSuccessByStartYear
C27_ClientEqualsServer ==
  (copy = "client" /\ pc \in {"returned", "threw"}) =>
    IF op = "run"
    THEN LET r == runRetirementMonthly("server", monthly, args)
         IN  /\ pc = "threw" <=> r.threw # ""
             /\ pc = "returned" => ret = r.result
    ELSE LET s == runRetirementSuccessByStartYear("server", monthly, args)
         IN  /\ pc = "threw" <=> s.threw # ""
             /\ pc = "returned" => out = s.out

\* the balance before the k-th recorded month and after its market return
PreviousBalance(k) == IF k = 1 THEN args.initialBalance ELSE ret.series[k - 1].value
PostMarketBalance(k) ==
  LET idx == findMonthIndex(monthly, ret.series[k].month)
  IN  Mul(PreviousBalance(k), Add(One, buildReturns(monthly)[idx + 1]))

NonNegativeCloses == \A i \in 1..Len(monthly) : Ge(monthly[i].close, Zero)

\* C28: in every result of runRetirementMonthly each recorded value is
\* max(0, previousBalance * (1 + return) - withdrawal) of its month, the
\* previous balance being initialBalance for the first month and the
\* preceding value afterwards; with non-negative closes the withdrawal
\* recorded in the ruin month is the whole post-market balance
C28_BalanceRecurrence ==
  Returned("run") =>
    LET n == Len(ret.series)
    IN  /\ \A k \in 1..n :
             ret.series[k].value
               = MathMax(Zero, Sub(PostMarketBalance(k), ret.series[k].withdrawal))
        /\ (~ret.success /\ NonNegativeCloses) =>
             ret.series[n].withdrawal = PostMarketBalance(n)

\* ruin after several months on a moving market: the last withdrawal is the
\* positive remainder, smaller than the withdrawals before it
C28_Witness ==
  /\ Returned("run") /\ ~ret.success /\ NonNegativeCloses
  /\ Len(ret.series) >= 3
  /\ Gt(ret.series[Len(ret.series)].withdrawal, Zero)
  /\ Lt(ret.series[Len(ret.series)].withdrawal, ret.series[1].withdrawal)
  /\ \E k \in 1..Len(ret.series) : PostMarketBalance(k) # PreviousBalance(k)

\* a run that completes its horizon with a withdrawal in every month
C28_WitnessSuccess ==
  /\ Returned("run") /\ ret.success /\ args.durationYears >= 1
  /\ \A k \in 1..Len(ret.series) : Gt(ret.series[k].withdrawal, Zero)
  /\ \E k \in 1..Len(ret.series) : PostMarketBalance(k) # PreviousBalance(k)

\* the loop is about to simulate a January under annual guardrails
AnnualGuardrailsJanuary ==
  /\ op = "run" /\ pc = "loop" /\ RunContinues(run)
  /\ args.withdrawMode = "guardrails" /\ args.withdrawFrequency = "annual"
  /\ monthly[run.i + 1].month.m = 1

\* C29: under guardrails with annual frequency the rate adjustment of every
\* January, the start month included, is driven by that January's
\* single-month return: the year-start balance of the month is the balance
\* it was entered with
C29_JanuaryUsesOwnReturn ==
  [][(AnnualGuardrailsJanuary /\ run'.threw = "") =>
       LET january == buildReturns(monthly)[run.i + 1]
       IN  /\ run'.yearStartBalance = run.balance
           /\ Sub(Div(run'.balanceAfterMarket, run'.yearStartBalance), One) = january
           /\ run'.currentRate = ExpectedRate(run.currentRate, january)]_vars

\* the January after a start year in which the market doubled: the flat
\* January lowers the rate
C29_Witness ==
  /\ op = "run" /\ pc \in {"loop", "returned"} /\ Len(run.series) >= 2
  /\ args.withdrawMode = "guardrails" /\ args.withdrawFrequency = "annual"
  /\ run.series[Len(run.series)].month.m = 1
  /\ Gt(run.series[Len(run.series) - 1].value, args.initialBalance)
  /\ Gt(run.series[Len(run.series)].withdrawal, Zero)
  /\ run.currentRate = Sub(GuardrailsSetup(args).currentRate, Step)

\* a run starting in a January that gained 10%: the rate is raised at once
C29_WitnessStartsInJanuary ==
  /\ GuardrailsJanuary
  /\ args.startMonth.m = 1
  /\ LastYtd = Rat(10, 100)
  /\ run.currentRate = Add(GuardrailsSetup(args).currentRate, Step)

\* C30: in every result of runRetirementMonthly with initialBalance > 0,
\* 0 <= maxDrawdown <= 1, and maxDrawdown = 1 exactly when success is false
C30_MaxDrawdownRange ==
  (Returned("run") /\ Gt(args.initialBalance, Zero)) =>
    /\ Le(Zero, ret.maxDrawdown) /\ Le(ret.maxDrawdown, One)
    /\ ret.maxDrawdown = One <=> ~ret.success

\* a ruined run of several months
C30_Witness ==
  /\ Returned("run") /\ ~ret.success
  /\ Len(ret.series) >= 2
  /\ ret.maxDrawdown = One

\* a run that completes its horizon below its peak
C30_WitnessSuccess ==
  /\ Returned("run") /\ ret.success /\ args.durationYears >= 1
  /\ Gt(ret.maxDrawdown, Zero) /\ Lt(ret.maxDrawdown, One)
====
